---------------------------- MODULE Spec2Model ----------------------------
(***************************************************************************)
(* A model of the PennyLane test harness (tests/conftest.py) and of the    *)
(* Qubitization template as exercised by                                   *)
(* tests/templates/test_subroutines/test_qubitization.py.                  *)
(*                                                                         *)
(* The harness consists of independent pieces (fixtures and hooks); each   *)
(* piece has its own variables, initial condition, actions and             *)
(* specification.  A specification leaves the variables of the other       *)
(* pieces at their rest values.                                            *)
(***************************************************************************)
EXTENDS Integers, Sequences, FiniteSets, TLC

VARIABLES
    \* ---- numpy's global generator and the restore_global_seed fixture
    rng,             \* np.random's global state
    original_state,  \* the fixture's local variable original_state
    rng_phase,       \* "idle" (between tests) or "body" (between setup and teardown)
    body_ops,        \* number of operations the current test body has performed
    starts,          \* history: the state captured at the start of each test
    dirtied,         \* history: the body of the current/last test changed the state
    \* ---- interface availability and the pytest_runtest_setup hook
    tf_available,    \* module-level flags set by the guarded imports
    torch_available,
    jax_available,
    item_markers,    \* names of the markers of the item the hook was last called on
    outcome,         \* "none" (no item yet), "skipped" or "run"
    skip_mark,       \* the marker b named in the skip message, or None
    \* ---- collection and the pytest_collection_modifyitems hook
    items,           \* the collected items: path, own markers, markers the hook added
    collect_phase,   \* "collected" (before the hook) or "modified" (after it)
    \* ---- operator arithmetic: the --disable-opmath option and its fixtures
    disable_opmath,       \* the string value of the option --disable-opmath
    new_opmath,           \* the library's flag read by active_new_opmath()
    new_opmath_at_start,  \* history: the flag when the session started
    warnings_emitted,     \* categories of the warnings emitted so far
    warning_filters,      \* the warning filters installed so far, newest first
    opmath_calls,         \* history: calls made to the library's opmath switches
    opmath_phase,         \* "start", "configured", "error" or "finished"
    opmath_fixtures,      \* the opmath fixtures the last test requested
    opmath_outcome,       \* "none", "skipped" or "run" for the last test
    opmath_tests,         \* number of tests set up so far
    \* ---- a test that uses the fixture use_legacy_and_new_opmath
    cm_stage,        \* "idle", "entered" (context entered, body not run) or "body_done"
    cm_index,        \* index in params of the current or last execution; 0 before any
    cm_was_active,   \* the context manager's local was_active
    cm_trace,        \* history: what happened for the current test function, in order
    cm_tests,        \* number of test functions using the fixture started so far
    cm_body_result,  \* "none", "passed" or "failed": how the last body ended
    \* ---- the seed fixture
    rng_seed,        \* the seed the pytest-rng plugin's fixture returns
    node_markers,    \* the markers of request.node, closest first
    seed_calls,      \* history: the definitions whose func the current request called
    seed_result,     \* <<>> before the fixture ran, then <<its outcome>>
    \* ---- the Qubitization template and the objects its tests create
    q_sums,          \* the Hamiltonian objects created so far (identity = index)
    q_wires,         \* the Wires objects created so far (identity = index)
    q_ops,           \* the Qubitization objects created so far (identity = index)
    q_phase,         \* "none", "constructed", "decomposed", "mapped" or "copied"
    q_decomposition, \* the list compute_decomposition returned
    q_wire_map       \* the wire map given to map_wires

rngVars == <<rng, original_state, rng_phase, body_ops, starts, dirtied>>

setupVars == <<tf_available, torch_available, jax_available, item_markers,
               outcome, skip_mark>>

collectVars == <<items, collect_phase>>

opmathVars == <<disable_opmath, new_opmath, new_opmath_at_start, warnings_emitted,
                warning_filters, opmath_calls, opmath_phase, opmath_fixtures,
                opmath_outcome, opmath_tests, cm_stage, cm_index, cm_was_active,
                cm_trace, cm_tests, cm_body_result>>

cmVars == <<cm_stage, cm_index, cm_was_active, cm_trace, cm_tests, cm_body_result>>

seedVars == <<rng_seed, node_markers, seed_calls, seed_result>>

qubitizationVars == <<q_sums, q_wires, q_ops, q_phase, q_decomposition, q_wire_map>>

vars == <<rngVars, setupVars, collectVars, opmathVars, seedVars, qubitizationVars>>

None == "None"

-----------------------------------------------------------------------------
(* Bounds *)
RngPeriod  == 4   \* number of distinct generator states
MaxTests   == 3   \* consecutive tests in a session
MaxBodyOps == 2   \* operations on the generator per test body
MaxItems   == 2   \* collected items handed to pytest_collection_modifyitems
MaxOpmathTests == 2   \* tests set up after the session fixture
MaxCmTests == 2   \* test functions that use use_legacy_and_new_opmath
MaxSeed    == 2   \* largest seed the plugin's fixture returns
MaxMarkerDepth == 2   \* markers on a node (function, class, module levels)
MaxTerms   == 2   \* terms of a Hamiltonian

-----------------------------------------------------------------------------
(* Rest values: what a specification leaves the other pieces at *)

SetupRest ==
    /\ tf_available = FALSE
    /\ torch_available = FALSE
    /\ jax_available = FALSE
    /\ item_markers = {}
    /\ outcome = "none"
    /\ skip_mark = None

CollectRest ==
    /\ items = <<>>
    /\ collect_phase = "collected"

OpmathRest ==
    /\ disable_opmath = "False"
    /\ new_opmath = TRUE
    /\ new_opmath_at_start = TRUE
    /\ warnings_emitted = <<>>
    /\ warning_filters = <<>>
    /\ opmath_calls = <<>>
    /\ opmath_phase = "start"
    /\ opmath_fixtures = {}
    /\ opmath_outcome = "none"
    /\ opmath_tests = 0
    /\ cm_stage = "idle"
    /\ cm_index = 0
    /\ cm_was_active = FALSE
    /\ cm_trace = <<>>
    /\ cm_tests = 0
    /\ cm_body_result = "none"

SeedRest ==
    /\ rng_seed = 0
    /\ node_markers = <<>>
    /\ seed_calls = <<>>
    /\ seed_result = <<>>

QubitizationRest ==
    /\ q_sums = <<>>
    /\ q_wires = <<>>
    /\ q_ops = <<>>
    /\ q_phase = "none"
    /\ q_decomposition = <<>>
    /\ q_wire_map = <<>>

-----------------------------------------------------------------------------
(* numpy's global generator, conftest.py:184-188 *)

RngStates == 0 .. (RngPeriod - 1)

\* np.random.get_state(): a copy of the state (a value)
get_state == rng

\* np.random.seed(n): the state is a function of the seed alone
seed_state(n) == n % RngPeriod

\* drawing a number advances the generator
draw_state(s) == (s + 1) % RngPeriod

RngRest ==
    /\ rng = 0
    /\ original_state = None
    /\ rng_phase = "idle"
    /\ body_ops = 0
    /\ starts = <<>>
    /\ dirtied = FALSE

\* restore_global_seed up to its yield: original_state = np.random.get_state()
restore_global_seed_setup ==
    /\ rng_phase = "idle"
    /\ Len(starts) < MaxTests
    /\ original_state' = get_state
    /\ starts' = Append(starts, get_state)
    /\ rng_phase' = "body"
    /\ body_ops' = 0
    /\ dirtied' = FALSE
    /\ UNCHANGED rng
    /\ UNCHANGED <<setupVars, collectVars, opmathVars, seedVars, qubitizationVars>>

\* the state np.random.set_state is given at teardown
RestoredState_Skipped == rng

RestoredState == original_state

\* restore_global_seed after its yield: np.random.set_state(original_state);
\* pytest runs it whether the body passed, failed or was skipped
restore_global_seed_teardown ==
    /\ rng_phase = "body"
    /\ rng' = RestoredState
    /\ rng_phase' = "idle"
    /\ UNCHANGED <<original_state, body_ops, starts, dirtied>>
    /\ UNCHANGED <<setupVars, collectVars, opmathVars, seedVars, qubitizationVars>>

\* the test body reads the state: np.random.get_state()
BodyRead ==
    /\ rng_phase = "body"
    /\ body_ops < MaxBodyOps
    /\ rng' = get_state
    /\ body_ops' = body_ops + 1
    /\ dirtied' = (dirtied \/ rng' # original_state)
    /\ UNCHANGED <<original_state, rng_phase, starts>>
    /\ UNCHANGED <<setupVars, collectVars, opmathVars, seedVars, qubitizationVars>>

\* the test body reseeds: np.random.seed(n)
BodyReseed ==
    /\ rng_phase = "body"
    /\ body_ops < MaxBodyOps
    /\ \E n \in RngStates : rng' = seed_state(n)
    /\ body_ops' = body_ops + 1
    /\ dirtied' = (dirtied \/ rng' # original_state)
    /\ UNCHANGED <<original_state, rng_phase, starts>>
    /\ UNCHANGED <<setupVars, collectVars, opmathVars, seedVars, qubitizationVars>>

\* the test body draws a random number
BodyDraw ==
    /\ rng_phase = "body"
    /\ body_ops < MaxBodyOps
    /\ rng' = draw_state(rng)
    /\ body_ops' = body_ops + 1
    /\ dirtied' = (dirtied \/ rng' # original_state)
    /\ UNCHANGED <<original_state, rng_phase, starts>>
    /\ UNCHANGED <<setupVars, collectVars, opmathVars, seedVars, qubitizationVars>>

RngInit ==
    /\ rng \in RngStates
    /\ original_state = None
    /\ rng_phase = "idle"
    /\ body_ops = 0
    /\ starts = <<>>
    /\ dirtied = FALSE
    /\ SetupRest
    /\ CollectRest
    /\ OpmathRest
    /\ SeedRest
    /\ QubitizationRest

RngNext ==
    \/ restore_global_seed_setup
    \/ BodyRead
    \/ BodyReseed
    \/ BodyDraw
    \/ restore_global_seed_teardown

SpecRng == RngInit /\ [][RngNext]_vars

\* C1: whatever the test body does to numpy's global generator, after the
\* teardown of restore_global_seed the generator's state is the one captured
\* before the body ran, and every test of a session starts from the same state.
C1_GlobalSeedRestored ==
    /\ (rng_phase = "idle" /\ Len(starts) > 0) => rng = starts[Len(starts)]
    /\ \A i, j \in 1 .. Len(starts) : starts[i] = starts[j]

\* two tests have run and been torn down, the second changed the state
C1_Witness ==
    /\ rng_phase = "idle"
    /\ Len(starts) >= 2
    /\ body_ops = MaxBodyOps
    /\ dirtied

-----------------------------------------------------------------------------
(* Interface availability and pytest_runtest_setup, conftest.py:221-242, 294-326 *)

\* the marker names an item may carry in this model
SetupMarkerNames == {"tf", "torch", "jax", "all_interfaces", "autograd", "core"}

interfaces == {"tf", "torch", "jax"}

available_interfaces ==
    [i \in interfaces |->
        CASE i = "tf" -> tf_available
          [] i = "torch" -> torch_available
          [] i = "jax" -> jax_available]

\* the list comprehension: the interfaces whose flag is True
allowed_interfaces == {i \in interfaces : available_interfaces[i] = TRUE}

all_interfaces == {"tf", "torch", "jax", "all_interfaces"}

\* marks = {mark.name for mark in item.iter_markers() if mark.name in all_interfaces}
marks(markers) == {m \in markers : m \in all_interfaces}

required_interfaces == {"tf", "torch", "jax"}

skip_all_interfaces_AnyOneSuffices(allowed) ==
    \A interface \in required_interfaces : interface \notin allowed

\* the branch b == "all_interfaces": skip when a required interface is not allowed
skip_all_interfaces(allowed) ==
    \E interface \in required_interfaces : interface \notin allowed

skip_interface_Inverted(b, allowed) == b \in allowed

\* the else branch: skip when b itself is not allowed
skip_interface(b, allowed) == b \notin allowed

\* whether the loop body calls pytest.skip for the mark b
skips_on(b) ==
    IF b = "all_interfaces"
    THEN skip_all_interfaces(allowed_interfaces)
    ELSE skip_interface(b, allowed_interfaces)

\* The hook on one item.  pytest.skip raises, so the loop ends at the first
\* mark that skips; a Python set of strings is iterated in no fixed order, so
\* any skipping mark may be the one named in the message.
pytest_runtest_setup ==
    /\ \E markers \in SUBSET SetupMarkerNames :
        /\ item_markers' = markers
        /\ IF \E b \in marks(markers) : skips_on(b)
           THEN /\ outcome' = "skipped"
                /\ skip_mark' \in {b \in marks(markers) : skips_on(b)}
           ELSE /\ outcome' = "run"
                /\ skip_mark' = None
    /\ UNCHANGED <<tf_available, torch_available, jax_available>>
    /\ UNCHANGED <<rngVars, collectVars, opmathVars, seedVars, qubitizationVars>>

\* the guarded imports of tensorflow, torch and jax each succeed or fail
SetupInit ==
    /\ tf_available \in BOOLEAN
    /\ torch_available \in BOOLEAN
    /\ jax_available \in BOOLEAN
    /\ item_markers = {}
    /\ outcome = "none"
    /\ skip_mark = None
    /\ RngRest
    /\ CollectRest
    /\ OpmathRest
    /\ SeedRest
    /\ QubitizationRest

SetupNext == pytest_runtest_setup

SpecSetup == SetupInit /\ [][SetupNext]_vars

Unavailable == {i \in {"tf", "torch", "jax"} :
                  \/ (i = "tf" /\ ~tf_available)
                  \/ (i = "torch" /\ ~torch_available)
                  \/ (i = "jax" /\ ~jax_available)}

\* C2: an item without the marker all_interfaces is skipped by the hook if and
\* only if it carries one of the markers tf, torch, jax whose interface is not
\* available; an item with none of these markers is never skipped.
C2_SkipIffMarkedInterfaceUnavailable ==
    (outcome # "none" /\ "all_interfaces" \notin item_markers) =>
        /\ (outcome = "skipped") <=> (item_markers \cap Unavailable # {})
        /\ (item_markers \cap {"tf", "torch", "jax"} = {}) => outcome = "run"

\* an item marked torch and autograd is skipped where only torch is missing
C2_Witness ==
    /\ item_markers = {"torch", "autograd"}
    /\ outcome = "skipped"
    /\ skip_mark = "torch"
    /\ tf_available /\ jax_available /\ ~torch_available

\* C3: an item carrying all_interfaces is skipped if and only if at least one
\* of tf, torch, jax is unavailable, in each of the 8 availability combinations.
C3_AllInterfacesSkipIffAnyUnavailable ==
    (outcome # "none" /\ "all_interfaces" \in item_markers) =>
        ((outcome = "skipped") <=> (Unavailable # {}))

\* an all_interfaces item is skipped where exactly one interface is missing
C3_Witness ==
    /\ item_markers = {"all_interfaces"}
    /\ outcome = "skipped"
    /\ skip_mark = "all_interfaces"
    /\ Unavailable = {"jax"}

\* an all_interfaces item runs where all three interfaces are available
C3_WitnessRuns ==
    /\ "all_interfaces" \in item_markers
    /\ outcome = "run"
    /\ Unavailable = {}

-----------------------------------------------------------------------------
(* Collection and pytest_collection_modifyitems, conftest.py:251-291 *)

\* A path component is the sequence of the words of its name ("finite_diff"
\* is <<"finite", "diff">>), so that equal components and components that
\* merely contain a name are different things.
Name(w) == <<w>>

\* rel_path.parts of the files items are collected from
Paths == {
    << Name("templates"), <<"test", "qubitization", "py">> >>,
    << Name("qchem"), <<"test", "dipole", "py">> >>,
    << Name("gradients"), <<"finite", "diff">>, <<"test", "finite", "diff", "py">> >>,
    << Name("gradients"), <<"parameter", "shift">>, <<"test", "hessian", "py">> >>,
    << Name("data"), Name("qchem"), <<"test", "data", "py">> >>,
    << <<"test", "data", "py">> >> }

\* the names in the list the second loop tests membership in
SuiteMarkers == {"autograd", "data", "torch", "tf", "jax", "qchem", "qcut",
                 "all_interfaces", "finite-diff", "param-shift", "external"}

\* the marker sets items carry before the hook runs (own and inherited)
OwnMarkerSets ==
    {{}} \cup {{m} : m \in SuiteMarkers} \cup {{"slow"}, {"core"}, {"slow", "jax"}}

Items == [parts : Paths, own : OwnMarkerSets, added : {<<>>}]

Range(f) == {f[i] : i \in DOMAIN f}

\* whether the words of a name occur, contiguously, in a component
Contains(part, component) ==
    \E k \in 0 .. (Len(part) - Len(component)) :
        SubSeq(part, k + 1, k + Len(component)) = component

\* a test on the path as text: a component that merely contains the name matches
InParts_Substring(component, parts) ==
    \E k \in DOMAIN parts : Contains(parts[k], component)

\* "name" in rel_path.parts
InParts(component, parts) == component \in Range(parts)

\* the first loop's body: the markers added for the item's path, in order
PathMarkers(parts) ==
    (IF InParts(Name("qchem"), parts) THEN <<"qchem">> ELSE <<>>)
    \o (IF InParts(<<"finite", "diff">>, parts) THEN <<"finite-diff">> ELSE <<>>)
    \o (IF InParts(<<"parameter", "shift">>, parts) THEN <<"param-shift">> ELSE <<>>)
    \o (IF InParts(Name("data"), parts) THEN <<"data">> ELSE <<>>)

\* item.add_marker(mark) for each mark of a sequence
add_markers(item, ms) == [item EXCEPT !.added = @ \o ms]

\* {mark.name for mark in item.iter_markers()}
iter_marker_names(item) == item.own \cup Range(item.added)

\* the condition of the second loop
lacks_suite_marker(markers) ==
    \/ ~(\E elem \in markers : elem \in SuiteMarkers)
    \/ markers = {}

first_loop(its) == [i \in DOMAIN its |-> add_markers(its[i], PathMarkers(its[i].parts))]

second_loop(its) ==
    [i \in DOMAIN its |->
        IF lacks_suite_marker(iter_marker_names(its[i]))
        THEN add_markers(its[i], <<"core">>)
        ELSE its[i]]

\* a single loop that marks core before the path markers of the item are added
modifyitems_SingleLoop(its) ==
    [i \in DOMAIN its |->
        add_markers(
            IF lacks_suite_marker(iter_marker_names(its[i]))
            THEN add_markers(its[i], <<"core">>)
            ELSE its[i],
            PathMarkers(its[i].parts))]

\* the hook's effect on the list of items: the first loop, then the second
modifyitems(its) == second_loop(first_loop(its))

\* pytest collects one more item
collect_item ==
    /\ collect_phase = "collected"
    /\ Len(items) < MaxItems
    /\ \E item \in Items : items' = Append(items, item)
    /\ UNCHANGED collect_phase
    /\ UNCHANGED <<rngVars, setupVars, opmathVars, seedVars, qubitizationVars>>

pytest_collection_modifyitems ==
    /\ collect_phase = "collected"
    /\ items' = modifyitems(items)
    /\ collect_phase' = "modified"
    /\ UNCHANGED <<rngVars, setupVars, opmathVars, seedVars, qubitizationVars>>

CollectInit ==
    /\ items = <<>>
    /\ collect_phase = "collected"
    /\ RngRest
    /\ SetupRest
    /\ OpmathRest
    /\ SeedRest
    /\ QubitizationRest

CollectNext ==
    \/ collect_item
    \/ pytest_collection_modifyitems

SpecCollect == CollectInit /\ [][CollectNext]_vars

PathDerived == {"qchem", "finite-diff", "param-shift", "data"}

\* C4: after the hook, it has added core to an item if and only if the item
\* carries no suite marker (its own or a path-derived one); no item got from
\* the hook both core and a path-derived marker, and an item with no marker at
\* all got core.
C4_CoreIffNoSuiteMarker ==
    collect_phase = "modified" =>
        \A i \in DOMAIN items :
            LET hook == Range(items[i].added)
                carried == (items[i].own \cup hook) \ {"core"}
            IN  /\ ("core" \in hook) <=> (carried \cap SuiteMarkers = {})
                /\ ~("core" \in hook /\ hook \cap PathDerived # {})
                /\ (items[i].own = {} /\ hook \cap PathDerived = {}) => "core" \in hook

\* of two items without own markers, the one under qchem/ got only qchem and
\* the one under templates/ got core
C4_Witness ==
    /\ collect_phase = "modified"
    /\ Len(items) = 2
    /\ items[1].own = {} /\ items[1].added = <<"qchem">>
    /\ items[2].own = {} /\ items[2].added = <<"core">>

\* the components of an item's path that are exactly the given name
HasComponent(item, component) == \E k \in DOMAIN item.parts : item.parts[k] = component

\* C11: the hook adds qchem, finite-diff, param-shift and data to an item if
\* and only if some component of its relative path equals "qchem",
\* "finite_diff", "parameter_shift" and "data" respectively; a component that
\* only contains such a name (test_data.py) adds nothing, and an item matching
\* several components gets every corresponding marker.
C11_PathMarkersByExactComponent ==
    collect_phase = "modified" =>
        \A i \in DOMAIN items :
            LET hook == Range(items[i].added) IN
            /\ ("qchem" \in hook) <=> HasComponent(items[i], <<"qchem">>)
            /\ ("finite-diff" \in hook) <=> HasComponent(items[i], <<"finite", "diff">>)
            /\ ("param-shift" \in hook) <=> HasComponent(items[i], <<"parameter", "shift">>)
            /\ ("data" \in hook) <=> HasComponent(items[i], <<"data">>)

\* an item under data/qchem/ got both markers, and an item in test_data.py at
\* the root got no path marker
C11_Witness ==
    /\ collect_phase = "modified"
    /\ Len(items) = 2
    /\ items[1].parts = << <<"data">>, <<"qchem">>, <<"test", "data", "py">> >>
    /\ items[1].added = <<"qchem", "data">>
    /\ items[2].parts = << <<"test", "data", "py">> >>
    /\ items[2].own = {}
    /\ items[2].added = <<"core">>

-----------------------------------------------------------------------------
(* The --disable-opmath option and the opmath fixtures, conftest.py:134-178 *)

\* values the option may be given on the command line; "False" is the default
OptionValues == {"False", "True", "0", "1", "None", "[]", "'False'", "false", ""}

DefaultOption == "False"

\* Python's eval of the option string: whether it raises, and the truth value
\* of what it evaluates to.  "'False'" is a non-empty string literal; "false"
\* is an undefined name; "" is not an expression.
eval(s) ==
    CASE s = "False"   -> [raised |-> FALSE, truthy |-> FALSE]
      [] s = "True"    -> [raised |-> FALSE, truthy |-> TRUE]
      [] s = "0"       -> [raised |-> FALSE, truthy |-> FALSE]
      [] s = "1"       -> [raised |-> FALSE, truthy |-> TRUE]
      [] s = "None"    -> [raised |-> FALSE, truthy |-> FALSE]
      [] s = "[]"      -> [raised |-> FALSE, truthy |-> FALSE]
      [] s = "'False'" -> [raised |-> FALSE, truthy |-> TRUE]
      [] s = "false"   -> [raised |-> TRUE, truthy |-> FALSE]
      [] s = ""        -> [raised |-> TRUE, truthy |-> FALSE]

\* the truth value of the option string itself, without eval
str_truthy(s) == [raised |-> FALSE, truthy |-> (s # "")]

\* the value the if statement of the fixture tests
requested(s) == eval(s)

\* the five filterwarnings calls, in program order
DeprecationFilters == <<
    [action |-> "ignore", message |-> "qml.ops.Hamiltonian",
     category |-> "PennyLaneDeprecationWarning"],
    [action |-> "ignore", message |-> "qml.operation.Tensor",
     category |-> "PennyLaneDeprecationWarning"],
    [action |-> "ignore", message |-> "qml.pauli.simplify",
     category |-> "PennyLaneDeprecationWarning"],
    [action |-> "ignore", message |-> "PauliSentence.hamiltonian",
     category |-> "PennyLaneDeprecationWarning"],
    [action |-> "ignore", message |-> "PauliWord.hamiltonian",
     category |-> "PennyLaneDeprecationWarning"] >>

Reverse(q) == [i \in 1 .. Len(q) |-> q[Len(q) + 1 - i]]

\* warnings.filterwarnings(...) for each filter of fs: each goes to the front
filterwarnings(installed, fs) == Reverse(fs) \o installed

\* qml.operation.disable_new_opmath(warn): the flag afterwards
disable_new_opmath_flag == FALSE

\* qml.operation.disable_new_opmath(warn): the warnings it emits itself
disable_new_opmath_warnings(warn) == IF warn THEN <<"UserWarning">> ELSE <<>>

\* qml.operation.active_new_opmath()
active_new_opmath == new_opmath

\* the session-scoped autouse fixture, run once before the first test
disable_opmath_if_requested ==
    /\ opmath_phase = "start"
    /\ LET r == requested(disable_opmath) IN
        IF r.raised
        THEN /\ opmath_phase' = "error"
             /\ UNCHANGED <<new_opmath, warnings_emitted, warning_filters, opmath_calls>>
        ELSE /\ opmath_phase' = "configured"
             /\ IF r.truthy
                THEN /\ warnings_emitted' = warnings_emitted \o <<"UserWarning">>
                                              \o disable_new_opmath_warnings(FALSE)
                     /\ opmath_calls' = Append(opmath_calls,
                            [by |-> "disable_opmath_if_requested",
                             fn |-> "disable_new_opmath", warn |-> FALSE])
                     /\ new_opmath' = disable_new_opmath_flag
                     /\ warning_filters' = filterwarnings(warning_filters, DeprecationFilters)
                ELSE UNCHANGED <<new_opmath, warnings_emitted, warning_filters, opmath_calls>>
    /\ UNCHANGED <<disable_opmath, new_opmath_at_start, opmath_fixtures, opmath_outcome,
                   opmath_tests, cmVars>>
    /\ UNCHANGED <<rngVars, setupVars, collectVars, seedVars, qubitizationVars>>

\* new_opmath_only: skip unless new opmath is active
new_opmath_only_skips == ~active_new_opmath

legacy_opmath_only_skips_Negated == ~active_new_opmath

\* legacy_opmath_only: skip if new opmath is active
legacy_opmath_only_skips == active_new_opmath

OpmathFixtures == {"new_opmath_only", "legacy_opmath_only"}

fixture_skips(f) ==
    CASE f = "new_opmath_only" -> new_opmath_only_skips
      [] f = "legacy_opmath_only" -> legacy_opmath_only_skips

use_legacy_and_new_opmath_params_Reversed ==
    <<"enable_new_opmath_cm", "disable_new_opmath_cm">>

\* params=[disable_new_opmath_cm, enable_new_opmath_cm]: one execution of the
\* requesting test per parameter, in this order
use_legacy_and_new_opmath_params ==
    <<"disable_new_opmath_cm", "enable_new_opmath_cm">>

\* no execution of a parametrized test is under way or pending: pytest runs
\* the executions of one test function one after the other, and tears an
\* execution's function-scoped fixtures down before it sets up the next test
BetweenTests ==
    /\ cm_stage = "idle"
    /\ cm_index \in {0, Len(use_legacy_and_new_opmath_params)}

\* the flag a context manager wants while it is open
cm_target(cm) == cm = "enable_new_opmath_cm"

\* entering request.param(warn=False): the switch called, if the flag must change
cm_enter_calls(cm, active) ==
    IF active = cm_target(cm) THEN <<>>
    ELSE << [by |-> "use_legacy_and_new_opmath",
             fn |-> IF cm_target(cm) THEN "enable_new_opmath" ELSE "disable_new_opmath",
             warn |-> FALSE] >>

\* leaving the context: the switch called to put back what entering changed
cm_exit_calls(cm, was_active) ==
    IF was_active = cm_target(cm) THEN <<>>
    ELSE << [by |-> "use_legacy_and_new_opmath",
             fn |-> IF was_active THEN "enable_new_opmath" ELSE "disable_new_opmath",
             warn |-> FALSE] >>

\* the flag after leaving the context
cm_exit_flag(cm, was_active, flag) ==
    IF was_active = cm_target(cm) THEN flag ELSE was_active

Event(ev, cm) == [ev |-> ev, cm |-> cm, warn |-> FALSE]

\* the fixture up to its yield, for the next parameter: the with statement
\* enters request.param(warn=False)
use_legacy_and_new_opmath_setup ==
    /\ opmath_phase = "configured"
    /\ cm_stage = "idle"
    /\ IF cm_index \in {0, Len(use_legacy_and_new_opmath_params)}
       THEN /\ cm_tests < MaxCmTests
            /\ cm_tests' = cm_tests + 1
            /\ cm_index' = 1
            /\ cm_trace' = << Event("enter", use_legacy_and_new_opmath_params[1]) >>
       ELSE /\ cm_tests' = cm_tests
            /\ cm_index' = cm_index + 1
            /\ cm_trace' = Append(cm_trace,
                   Event("enter", use_legacy_and_new_opmath_params[cm_index + 1]))
    /\ LET cm == use_legacy_and_new_opmath_params[cm_index'] IN
        /\ cm_was_active' = active_new_opmath
        /\ new_opmath' = cm_target(cm)
        /\ opmath_calls' = opmath_calls \o cm_enter_calls(cm, active_new_opmath)
    /\ cm_stage' = "entered"
    /\ cm_body_result' = "none"
    /\ UNCHANGED <<disable_opmath, new_opmath_at_start, warnings_emitted, warning_filters,
                   opmath_phase, opmath_fixtures, opmath_outcome, opmath_tests>>
    /\ UNCHANGED <<rngVars, setupVars, collectVars, seedVars, qubitizationVars>>

\* the body of the requesting test runs, and passes or fails
cm_test_body ==
    /\ cm_stage = "entered"
    /\ cm_body_result' \in {"passed", "failed"}
    /\ cm_trace' = Append(cm_trace, Event("body", use_legacy_and_new_opmath_params[cm_index]))
    /\ cm_stage' = "body_done"
    /\ UNCHANGED <<disable_opmath, new_opmath, new_opmath_at_start, warnings_emitted,
                   warning_filters, opmath_calls, opmath_phase, opmath_fixtures,
                   opmath_outcome, opmath_tests, cm_index, cm_was_active, cm_tests>>
    /\ UNCHANGED <<rngVars, setupVars, collectVars, seedVars, qubitizationVars>>

\* the fixture after its yield: the with statement leaves the context; pytest
\* resumes the fixture whether the body passed or failed
use_legacy_and_new_opmath_teardown ==
    /\ cm_stage = "body_done"
    /\ LET cm == use_legacy_and_new_opmath_params[cm_index] IN
        /\ new_opmath' = cm_exit_flag(cm, cm_was_active, new_opmath)
        /\ opmath_calls' = opmath_calls \o cm_exit_calls(cm, cm_was_active)
        /\ cm_trace' = Append(cm_trace, Event("exit", cm))
    /\ cm_stage' = "idle"
    /\ UNCHANGED <<disable_opmath, new_opmath_at_start, warnings_emitted, warning_filters,
                   opmath_phase, opmath_fixtures, opmath_outcome, opmath_tests, cm_index,
                   cm_was_active, cm_tests, cm_body_result>>
    /\ UNCHANGED <<rngVars, setupVars, collectVars, seedVars, qubitizationVars>>

\* the setup of a test that requests some of the opmath-only fixtures
opmath_test_setup ==
    /\ opmath_phase = "configured"
    /\ BetweenTests
    /\ opmath_tests < MaxOpmathTests
    /\ \E fs \in SUBSET OpmathFixtures :
        /\ opmath_fixtures' = fs
        /\ opmath_outcome' = IF \E f \in fs : fixture_skips(f) THEN "skipped" ELSE "run"
    /\ opmath_tests' = opmath_tests + 1
    /\ UNCHANGED <<disable_opmath, new_opmath, new_opmath_at_start, warnings_emitted,
                   warning_filters, opmath_calls, opmath_phase, cmVars>>
    /\ UNCHANGED <<rngVars, setupVars, collectVars, seedVars, qubitizationVars>>

\* the session ends; disable_opmath_if_requested has no teardown
opmath_session_finish ==
    /\ opmath_phase \in {"configured", "error"}
    /\ BetweenTests
    /\ opmath_phase' = "finished"
    /\ UNCHANGED <<disable_opmath, new_opmath, new_opmath_at_start, warnings_emitted,
                   warning_filters, opmath_calls, opmath_fixtures, opmath_outcome,
                   opmath_tests, cmVars>>
    /\ UNCHANGED <<rngVars, setupVars, collectVars, seedVars, qubitizationVars>>

OpmathInit ==
    /\ disable_opmath \in OptionValues
    /\ new_opmath \in BOOLEAN
    /\ new_opmath_at_start = new_opmath
    /\ warnings_emitted = <<>>
    /\ warning_filters = <<>>
    /\ opmath_calls = <<>>
    /\ opmath_phase = "start"
    /\ opmath_fixtures = {}
    /\ opmath_outcome = "none"
    /\ opmath_tests = 0
    /\ cm_stage = "idle"
    /\ cm_index = 0
    /\ cm_was_active = FALSE
    /\ cm_trace = <<>>
    /\ cm_tests = 0
    /\ cm_body_result = "none"
    /\ RngRest
    /\ SetupRest
    /\ CollectRest
    /\ SeedRest
    /\ QubitizationRest

OpmathNext ==
    \/ disable_opmath_if_requested
    \/ opmath_test_setup
    \/ use_legacy_and_new_opmath_setup
    \/ cm_test_body
    \/ use_legacy_and_new_opmath_teardown
    \/ opmath_session_finish

SpecOpmath == OpmathInit /\ [][OpmathNext]_vars

\* the option strings that evaluate, without raising, to a true value
TrueOptions == {"True", "1", "'False'"}

FixtureCalls ==
    SelectSeq(opmath_calls, LAMBDA c : c.by = "disable_opmath_if_requested")

\* C5: once disable_opmath_if_requested has run, new opmath was disabled by it
\* if and only if the option string evaluates to a true value.  With a true
\* value it emitted one UserWarning, called disable_new_opmath(warn=False) once
\* and installed the five deprecation filters, and new opmath is still
\* disabled when the session ends (and whenever no use_legacy_and_new_opmath
\* context is open); otherwise (the default "False" included) the
\* opmath setting is as it was and no warning and no filter was added.
C5_DisabledIffOptionTrue ==
    opmath_phase # "start" =>
        IF disable_opmath \in TrueOptions
        THEN /\ warnings_emitted = <<"UserWarning">>
             /\ FixtureCalls = << [by |-> "disable_opmath_if_requested",
                                   fn |-> "disable_new_opmath", warn |-> FALSE] >>
             /\ Len(warning_filters) = 5
             /\ Range(warning_filters) = Range(DeprecationFilters)
             /\ cm_stage = "idle" => ~new_opmath
        ELSE /\ warnings_emitted = <<>>
             /\ FixtureCalls = <<>>
             /\ warning_filters = <<>>
             /\ cm_stage = "idle" => new_opmath = new_opmath_at_start

\* the session ended after the option "True" disabled an active new opmath
C5_Witness ==
    /\ disable_opmath = "True"
    /\ new_opmath_at_start
    /\ opmath_phase = "finished"
    /\ ~new_opmath
    /\ Len(warning_filters) = 5

\* the default option left an active new opmath untouched
C5_WitnessDefault ==
    /\ disable_opmath = DefaultOption
    /\ new_opmath_at_start
    /\ opmath_phase = "finished"
    /\ new_opmath

\* what one test function using the fixture goes through
ExpectedTrace == <<
    Event("enter", "disable_new_opmath_cm"),
    Event("body", "disable_new_opmath_cm"),
    Event("exit", "disable_new_opmath_cm"),
    Event("enter", "enable_new_opmath_cm"),
    Event("body", "enable_new_opmath_cm"),
    Event("exit", "enable_new_opmath_cm") >>

\* C12: a test using use_legacy_and_new_opmath is executed exactly twice, first
\* inside disable_new_opmath_cm(warn=False), then inside
\* enable_new_opmath_cm(warn=False); each time the context is entered before
\* the body runs and left after it, whether the body passed or failed, and it
\* is left before the next execution or the next test starts.
C12_TwiceInsideContextInOrder ==
    /\ Len(cm_trace) <= Len(ExpectedTrace)
    /\ cm_trace = SubSeq(ExpectedTrace, 1, Len(cm_trace))
    /\ (cm_stage = "idle" /\ cm_index = 2) => cm_trace = ExpectedTrace
    /\ (cm_stage = "idle") <=> (Len(cm_trace) \in {0, 3, 6})
    /\ opmath_phase = "finished" => Len(cm_trace) \in {0, 6}

\* a second test function has gone through both executions, the last body
\* failing, and another test was set up afterwards
C12_Witness ==
    /\ cm_tests = 2
    /\ cm_trace = ExpectedTrace
    /\ cm_body_result = "failed"
    /\ opmath_outcome # "none"
    /\ opmath_phase = "finished"

\* C13: in every opmath state exactly one of new_opmath_only and
\* legacy_opmath_only skips the requesting test: new_opmath_only skips if and
\* only if new opmath is not active, legacy_opmath_only if and only if it is
\* active; a test requesting both is always skipped, and setting the fixtures
\* up leaves the opmath state as it was.
C13_ExactlyOneOpmathOnlyFixtureSkips ==
    [][opmath_tests' = opmath_tests + 1 =>
          /\ new_opmath' = new_opmath
          /\ opmath_fixtures' = {"new_opmath_only"} =>
                 ((opmath_outcome' = "skipped") <=> ~new_opmath)
          /\ opmath_fixtures' = {"legacy_opmath_only"} =>
                 ((opmath_outcome' = "skipped") <=> new_opmath)
          /\ opmath_fixtures' = {"new_opmath_only", "legacy_opmath_only"} =>
                 opmath_outcome' = "skipped"
          /\ opmath_fixtures' = {} => opmath_outcome' = "run"]_vars

\* with new opmath disabled by the option, a test requesting both fixtures
\* was skipped
C13_Witness ==
    /\ opmath_fixtures = {"new_opmath_only", "legacy_opmath_only"}
    /\ opmath_outcome = "skipped"
    /\ disable_opmath = "True"
    /\ new_opmath_at_start
    /\ ~new_opmath

\* with new opmath active, a test requesting only new_opmath_only ran
C13_WitnessRuns ==
    /\ opmath_fixtures = {"new_opmath_only"}
    /\ opmath_outcome = "run"
    /\ new_opmath

-----------------------------------------------------------------------------
(* The seed fixture, conftest.py:191-216 *)

\* fixture_manager.getfixturedefs("seed", request.node): the definitions of
\* the fixture named seed, the plugin's first and the overriding one last
fixture_defs == <<"pytest_rng.seed", "conftest.seed">>

original_fixture_def_Last == fixture_defs[Len(fixture_defs)]

\* fixture_defs[0], the original seed fixture provided by pytest-rng
original_fixture_def == fixture_defs[1]

\* the markers a node may carry
Marks == {
    [name |-> "local_salt", args |-> <<>>],
    [name |-> "local_salt", args |-> <<0>>],
    [name |-> "local_salt", args |-> <<1>>],
    [name |-> "local_salt", args |-> <<-1>>],
    [name |-> "local_salt", args |-> <<1, 2>>],
    [name |-> "slow", args |-> <<>>] }

RECURSIVE SeqsUpTo(_, _)
SeqsUpTo(S, n) ==
    IF n = 0 THEN {<<>>}
    ELSE LET shorter == SeqsUpTo(S, n - 1) IN
         shorter \cup {Append(q, x) : q \in {r \in shorter : Len(r) = n - 1}, x \in S}

\* Python's None where a marker is expected
NoMarker == [name |-> None, args |-> <<>>]

\* request.node.get_closest_marker(name): the first marker of that name, or None
get_closest_marker(ms, name) ==
    LET hits == {i \in DOMAIN ms : ms[i].name = name} IN
    IF hits = {} THEN NoMarker
    ELSE ms[CHOOSE i \in hits : \A j \in hits : i <= j]

\* the fixture's return value, given the original seed and the closest marker:
\* "if marker and marker.args" holds for a marker with a non-empty args tuple
salted(original_seed, marker) ==
    IF marker # NoMarker /\ marker.args # <<>>
    THEN original_seed + marker.args[1]
    ELSE original_seed

\* the fixture: one call of the original definition's func, then the salt;
\* were the called definition the overriding fixture itself, the call would
\* recurse without end
seed ==
    /\ seed_result = <<>>
    /\ LET def == original_fixture_def
           marker == get_closest_marker(node_markers, "local_salt")
       IN  /\ seed_calls' = Append(seed_calls, def)
           /\ seed_result' =
                 IF def = "pytest_rng.seed"
                 THEN << [raised |-> FALSE, value |-> salted(rng_seed, marker)] >>
                 ELSE << [raised |-> TRUE, value |-> 0] >>
    /\ UNCHANGED <<rng_seed, node_markers>>
    /\ UNCHANGED <<rngVars, setupVars, collectVars, opmathVars, qubitizationVars>>

\* the next test requests the fixture
seed_next_request ==
    /\ seed_result # <<>>
    /\ \E ms \in SeqsUpTo(Marks, MaxMarkerDepth) : node_markers' = ms
    /\ seed_result' = <<>>
    /\ seed_calls' = <<>>
    /\ UNCHANGED rng_seed
    /\ UNCHANGED <<rngVars, setupVars, collectVars, opmathVars, qubitizationVars>>

SeedInit ==
    /\ rng_seed \in 0 .. MaxSeed
    /\ node_markers \in SeqsUpTo(Marks, MaxMarkerDepth)
    /\ seed_calls = <<>>
    /\ seed_result = <<>>
    /\ RngRest
    /\ SetupRest
    /\ CollectRest
    /\ OpmathRest
    /\ QubitizationRest

SeedNext ==
    \/ seed
    \/ seed_next_request

SpecSeed == SeedInit /\ [][SeedNext]_vars

LocalSalts == {i \in DOMAIN node_markers : node_markers[i].name = "local_salt"}

\* C6: the seed fixture calls the plugin's definition of seed (the first one
\* registered, not itself) exactly once per request, and returns the plugin's
\* seed plus the first positional argument of the closest local_salt marker
\* (0 included), or the plugin's seed unchanged when there is no local_salt
\* marker or the closest one has no arguments.
C6_SeedPlusLocalSalt ==
    seed_result # <<>> =>
        /\ seed_calls = <<"pytest_rng.seed">>
        /\ ~seed_result[1].raised
        /\ IF LocalSalts = {}
           THEN seed_result[1].value = rng_seed
           ELSE LET closest == node_markers[CHOOSE i \in LocalSalts :
                                               \A j \in LocalSalts : i <= j]
                IN  IF Len(closest.args) = 0
                    THEN seed_result[1].value = rng_seed
                    ELSE seed_result[1].value = rng_seed + closest.args[1]

\* a closest marker local_salt(1, 2) in front of local_salt(-1) added 1
C6_Witness ==
    /\ node_markers = << [name |-> "local_salt", args |-> <<1, 2>>],
                         [name |-> "local_salt", args |-> <<-1>>] >>
    /\ rng_seed = 2
    /\ seed_result = << [raised |-> FALSE, value |-> 3] >>
    /\ seed_calls = <<"pytest_rng.seed">>

\* a marker local_salt(0) behind an unrelated marker left the seed as it was
C6_WitnessZero ==
    /\ node_markers = << [name |-> "slow", args |-> <<>>],
                         [name |-> "local_salt", args |-> <<0>>] >>
    /\ seed_result = << [raised |-> FALSE, value |-> rng_seed] >>

-----------------------------------------------------------------------------
(* The Qubitization template as test_qubitization.py exercises it.  The    *)
(* template and the operators it is compared with are library code; their  *)
(* model follows the values the tests expect.                              *)

\* the angle written in test_decomposition (3.141592653589793), in units of
\* 10^-6 and truncated
Pi == 3141592

\* wire labels of Hamiltonians and of control registers
TargetLabels == {"0", "1", "a"}
ControlLabels == {"2", "3"}

\* Wires.all_wires: the wires of a list of wire sequences, each once, in the
\* order of first occurrence
RECURSIVE all_wires(_)
all_wires(ws) ==
    IF ws = <<>> THEN <<>>
    ELSE LET before == all_wires(SubSeq(ws, 1, Len(ws) - 1))
             last == ws[Len(ws)]
         IN  before \o SelectSeq(last, LAMBDA w : w \notin Range(before))

PauliX(w) == [name |-> "PauliX", wires |-> <<w>>]
PauliZ(w) == [name |-> "PauliZ", wires |-> <<w>>]

\* a @ b
Prod(a, b) == [name |-> a.name \o "@" \o b.name, wires |-> all_wires(<<a.wires, b.wires>>)]

\* the operands Hamiltonians are built from
Operands == {PauliX("0"), PauliZ("0"), PauliZ("1"), PauliX("a"),
             Prod(PauliX("a"), PauliZ("1")), Prod(PauliZ("1"), PauliX("0"))}

Coefficients == {-1, 1, 2}

\* qml.dot(coeffs, ops) and qml.ops.LinearCombination(coeffs, ops)
LinearCombination(coeffs, ops) == [coeffs |-> coeffs, ops |-> ops]

\* hamiltonian.terms(): the coefficients and the operands
terms(H) == <<H.coeffs, H.ops>>

OpWires(ops) == all_wires([i \in DOMAIN ops |-> ops[i].wires])

\* hamiltonian.wires
HamiltonianWires(H) == OpWires(H.ops)

Hamiltonians ==
    {LinearCombination([i \in DOMAIN ts |-> ts[i][1]], [i \in DOMAIN ts |-> ts[i][2]]) :
        ts \in SeqsUpTo(Coefficients \X Operands, MaxTerms) \ {<<>>}}

\* the control arguments given to the templates
Controls == {<<"2">>, <<"2", "3">>, <<"3", "2">>}

Identity(wires) == [name |-> "Identity", wires |-> wires]

Reflection(U, alpha) ==
    [name |-> "Reflection", base |-> U, alpha |-> alpha, wires |-> U.wires]

PrepSelPrep(lcu, control) ==
    [name |-> "PrepSelPrep", lcu |-> lcu, control |-> control,
     wires |-> control \o OpWires(terms(lcu)[2])]

Select(ops, control) ==
    [name |-> "Select", ops |-> ops, control |-> control,
     wires |-> control \o OpWires(ops)]

QubitizationWires_HamiltonianFirst(hamiltonian, control) ==
    HamiltonianWires(hamiltonian) \o control

\* the wires of Qubitization(hamiltonian, control): control, then hamiltonian
QubitizationWires(hamiltonian, control) ==
    control \o HamiltonianWires(hamiltonian)

compute_decomposition_PrepFirst(hamiltonian, control) ==
    << PrepSelPrep(hamiltonian, control), Reflection(Identity(control), Pi) >>

\* Qubitization.compute_decomposition(hamiltonian=..., control=...)
compute_decomposition(hamiltonian, control) ==
    << Reflection(Identity(control), Pi), PrepSelPrep(hamiltonian, control) >>

\* the value of the Qubitization object i: what qml.assert_equal compares
OpValue(i) ==
    [name |-> "Qubitization",
     hamiltonian |-> q_sums[q_ops[i].hamiltonian],
     control |-> q_wires[q_ops[i].control],
     wires |-> q_ops[i].wires]

\* op = qml.Qubitization(H, control=control)
Qubitization ==
    /\ q_phase = "none"
    /\ \E H \in Hamiltonians, control \in Controls :
        /\ q_sums' = <<H>>
        /\ q_wires' = <<control>>
        /\ q_ops' = << [hamiltonian |-> 1, control |-> 1,
                        wires |-> QubitizationWires(H, control)] >>
    /\ q_phase' = "constructed"
    /\ UNCHANGED <<q_decomposition, q_wire_map>>
    /\ UNCHANGED <<rngVars, setupVars, collectVars, opmathVars, seedVars>>

\* the decomposition of the operator, from its hyperparameters
decomposition ==
    /\ q_phase = "constructed"
    /\ q_decomposition' = compute_decomposition(OpValue(1).hamiltonian, OpValue(1).control)
    /\ q_phase' = "decomposed"
    /\ UNCHANGED <<q_sums, q_wires, q_ops, q_wire_map>>
    /\ UNCHANGED <<rngVars, setupVars, collectVars, opmathVars, seedVars>>

\* wire maps, as sets of <<wire, image>> pairs; the first is test_map_wires's
WireMaps == {
    {<<"0", "5">>, <<"1", "6">>, <<"2", "7">>, <<"3", "8">>},
    {<<"0", "1">>, <<"1", "0">>},
    {<<"2", "3">>, <<"3", "2">>, <<"a", "b">>},
    {} }

\* wire_map.get(w, w)
MapGet(m, w) ==
    IF \E pr \in m : pr[1] = w THEN (CHOOSE pr \in m : pr[1] = w)[2] ELSE w

MapSeq(m, ws) == [i \in DOMAIN ws |-> MapGet(m, ws[i])]

\* qml.map_wires(hamiltonian, wire_map): every operand on its mapped wires
map_hamiltonian(m, H) ==
    LinearCombination(H.coeffs,
        [i \in DOMAIN H.ops |-> [name |-> H.ops[i].name, wires |-> MapSeq(m, H.ops[i].wires)]])

map_control_Unmapped(m, control) == control

\* the control wires of the mapped operator
map_control(m, control) == MapSeq(m, control)

\* op2 = op.map_wires(wire_map): a new operator on the mapped Hamiltonian and control
map_wires ==
    /\ q_phase = "constructed"
    /\ \E m \in WireMaps :
        LET H == map_hamiltonian(m, OpValue(1).hamiltonian)
            control == map_control(m, OpValue(1).control)
        IN  /\ q_wire_map' = m
            /\ q_sums' = Append(q_sums, H)
            /\ q_wires' = Append(q_wires, control)
            /\ q_ops' = Append(q_ops,
                   [hamiltonian |-> Len(q_sums) + 1, control |-> Len(q_wires) + 1,
                    wires |-> QubitizationWires(H, control)])
    /\ q_phase' = "mapped"
    /\ UNCHANGED q_decomposition
    /\ UNCHANGED <<rngVars, setupVars, collectVars, opmathVars, seedVars>>

\* a copy that shares the hyperparameters of the original
copy_hyperparameters_Shallow(i) ==
    [sums |-> q_sums, wires |-> q_wires,
     hamiltonian |-> q_ops[i].hamiltonian, control |-> q_ops[i].control]

\* the hyperparameters of the copy of operator i: new objects of equal value
copy_hyperparameters(i) ==
    [sums |-> Append(q_sums, q_sums[q_ops[i].hamiltonian]),
     wires |-> Append(q_wires, q_wires[q_ops[i].control]),
     hamiltonian |-> Len(q_sums) + 1, control |-> Len(q_wires) + 1]

\* copy_op = copy.copy(orig_op)
copy ==
    /\ q_phase = "constructed"
    /\ LET c == copy_hyperparameters(1) IN
        /\ q_sums' = c.sums
        /\ q_wires' = c.wires
        /\ q_ops' = Append(q_ops, [hamiltonian |-> c.hamiltonian, control |-> c.control,
                                    wires |-> q_ops[1].wires])
    /\ q_phase' = "copied"
    /\ UNCHANGED <<q_decomposition, q_wire_map>>
    /\ UNCHANGED <<rngVars, setupVars, collectVars, opmathVars, seedVars>>

QubitizationInit ==
    /\ QubitizationRest
    /\ RngRest
    /\ SetupRest
    /\ CollectRest
    /\ OpmathRest
    /\ SeedRest

QubitizationNext ==
    \/ Qubitization
    \/ decomposition
    \/ map_wires
    \/ copy

SpecQubitization == QubitizationInit /\ [][QubitizationNext]_vars

=============================================================================
